---- MODULE Spec2Model ----
(***************************************************************************)
(* Model of the canvas-settings slice and the UI slice of the web front    *)
(* end (canvasSettingsSlice.ts): the slices' states, their reducers, and   *)
(* the migrate functions of their persist configs.                         *)
(*                                                                         *)
(* A JavaScript object is a function from its own property names to        *)
(* values; a missing property is a name outside the DOMAIN.                *)
(***************************************************************************)
EXTENDS Integers, Sequences, FiniteSets, TLC

VARIABLES
  canvasSettings,  \* state of the canvasSettings slice
  ui,              \* state of the ui slice
  uiAction,        \* the action last dispatched to the ui slice
  slice,           \* name of the persist config whose snapshot was loaded
  persisted,       \* the snapshot as it was read from storage
  migrated,        \* the snapshot object, as left by the migrate calls so far
  before,          \* the snapshot object as it was before the latest migrate call
  nCalls           \* number of migrate calls made on the snapshot

vars == <<canvasSettings, ui, uiAction, slice, persisted, migrated, before, nCalls>>
storeVars == <<canvasSettings, ui, uiAction>>
persistVars == <<slice, persisted, migrated, before, nCalls>>

(***************************************************************************)
(* Bounds                                                                  *)
(***************************************************************************)
MaxVersion == 4       \* persisted _version tags range over 0..MaxVersion
MaxCalls == 2         \* migrate calls made on one snapshot
NumIds == 2           \* accordion / expander ids in use
MaxWidthTenths == 5   \* width payloads range over -0.5 .. 0.5 in steps of 0.1

(***************************************************************************)
(* Objects                                                                 *)
(***************************************************************************)
EmptyObject == <<>>

Has(state, f) == f \in DOMAIN state

\* state.f = v
Put(state, f, v) == [g \in DOMAIN state \cup {f} |-> IF g = f THEN v ELSE state[g]]

\* an optional property: <<>> when missing, <<v>> when present with value v
Opt(S) == {<<>>} \cup {<<v>> : v \in S}
Prop(f, o) == IF o = <<>> THEN EmptyObject ELSE (f :> o[1])

(***************************************************************************)
(* Canvas settings slice                                                   *)
(***************************************************************************)
invokeBlue == [r |-> 31, g |-> 160, b |-> 224, a |-> 1]

initialState ==
  [ autoSave |-> FALSE,
    showHUD |-> TRUE,
    clipToBbox |-> FALSE,
    dynamicGrid |-> FALSE,
    brushWidth |-> 50,
    eraserWidth |-> 50,
    invertScrollForToolWidth |-> FALSE,
    color |-> invokeBlue,
    sendToCanvas |-> FALSE,
    outputOnlyMaskedRegions |-> FALSE,
    autoProcessFilter |-> TRUE,
    snapToGrid |-> TRUE,
    showProgressOnCanvas |-> TRUE,
    bboxOverlay |-> FALSE,
    preserveMask |-> FALSE ]

\* Math.round of a number given in tenths: the nearest integer, ties upwards
MathRound(tenths) == (tenths + 5) \div 10

settingsClipToBboxChanged(state, payload) == [state EXCEPT !.clipToBbox = payload]

settingsDynamicGridToggled_set(state) == [state EXCEPT !.dynamicGrid = TRUE]
settingsDynamicGridToggled(state) == [state EXCEPT !.dynamicGrid = ~state.dynamicGrid]
settingsAutoSaveToggled(state) == [state EXCEPT !.autoSave = ~state.autoSave]
settingsShowHUDToggled(state) == [state EXCEPT !.showHUD = ~state.showHUD]
settingsBrushWidthChanged(state, payload) == [state EXCEPT !.brushWidth = MathRound(payload)]
settingsEraserWidthChanged(state, payload) == [state EXCEPT !.eraserWidth = MathRound(payload)]
settingsColorChanged(state, payload) == [state EXCEPT !.color = payload]
settingsInvertScrollForToolWidthChanged(state, payload) ==
  [state EXCEPT !.invertScrollForToolWidth = payload]
settingsSendToCanvasChanged(state, payload) == [state EXCEPT !.sendToCanvas = payload]
settingsOutputOnlyMaskedRegionsToggled(state) ==
  [state EXCEPT !.outputOnlyMaskedRegions = ~state.outputOnlyMaskedRegions]
settingsAutoProcessFilterToggled(state) ==
  [state EXCEPT !.autoProcessFilter = ~state.autoProcessFilter]
settingsSnapToGridToggled(state) == [state EXCEPT !.snapToGrid = ~state.snapToGrid]
settingsShowProgressOnCanvasToggled(state) ==
  [state EXCEPT !.showProgressOnCanvas = ~state.showProgressOnCanvas]
settingsBboxOverlayToggled(state) == [state EXCEPT !.bboxOverlay = ~state.bboxOverlay]
settingsPreserveMaskToggled(state) == [state EXCEPT !.preserveMask = ~state.preserveMask]

\* the migrate function of canvasSettingsPersistConfig
migrate_tagged(state) == IF ~Has(state, "_version") THEN Put(state, "_version", 1) ELSE state
migrate(state) == state

(***************************************************************************)
(* UI slice                                                                *)
(***************************************************************************)
initialUIState ==
  ("_version" :> 3) @@ ("activeTab" :> "canvas") @@
  ("shouldShowImageDetails" :> FALSE) @@ ("shouldShowProgressInViewer" :> TRUE) @@
  ("accordions" :> EmptyObject) @@ ("expanders" :> EmptyObject)

\* the tab names the module uses
TabNames == {"canvas", "upscaling", "workflows", "generation"}

setActiveTab(state, payload) == Put(state, "activeTab", payload)
setShouldShowImageDetails(state, payload) == Put(state, "shouldShowImageDetails", payload)
setShouldShowProgressInViewer(state, payload) ==
  Put(state, "shouldShowProgressInViewer", payload)

accordionStateChanged_replace(state, payload) ==
  Put(state, "accordions", (payload.id :> payload.isOpen))
accordionStateChanged(state, payload) ==
  Put(state, "accordions", Put(state["accordions"], payload.id, payload.isOpen))
expanderStateChanged(state, payload) ==
  Put(state, "expanders", Put(state["expanders"], payload.id, payload.isOpen))
workflowLoadRequested(state) == Put(state, "activeTab", "workflows")

(***************************************************************************)
(* migrateUIState: the three conditional steps, then their composition     *)
(***************************************************************************)
\* if (!('_version' in state)) { state._version = 1; }
stepNoVersion_current(state) ==
  IF ~Has(state, "_version") THEN Put(state, "_version", 3) ELSE state
stepNoVersion(state) ==
  IF ~Has(state, "_version") THEN Put(state, "_version", 1) ELSE state

\* if (state._version === 1) { state.activeTab = 'generation'; state._version = 2; }
stepV1(state) ==
  IF Has(state, "_version") /\ state["_version"] = 1
    THEN Put(Put(state, "activeTab", "generation"), "_version", 2)
    ELSE state

\* if (state._version === 2) { state.activeTab = 'canvas'; state._version = 3; }
stepV2_generation(state) ==
  IF Has(state, "_version") /\ state["_version"] = 2
    THEN Put(Put(state, "activeTab", "generation"), "_version", 3)
    ELSE state
stepV2_atLeast(state) ==
  IF Has(state, "_version") /\ state["_version"] >= 2
    THEN Put(Put(state, "activeTab", "canvas"), "_version", 3)
    ELSE state
stepV2(state) ==
  IF Has(state, "_version") /\ state["_version"] = 2
    THEN Put(Put(state, "activeTab", "canvas"), "_version", 3)
    ELSE state

\* variants of the whole function
migrateUIState_elseIf(state) ==
  IF ~Has(state, "_version") THEN Put(state, "_version", 1)
  ELSE IF state["_version"] = 1 THEN Put(Put(state, "activeTab", "generation"), "_version", 2)
  ELSE IF state["_version"] = 2 THEN Put(Put(state, "activeTab", "canvas"), "_version", 3)
  ELSE state
migrateUIState_knownOnly(state) ==
  LET s == stepV2(stepV1(stepNoVersion(state)))
  IN  [f \in DOMAIN s \cap DOMAIN initialUIState |-> s[f]]
migrateUIState_backfill(state) ==
  LET s == stepV2(stepV1(stepNoVersion(state)))
  IN  s @@ initialUIState
migrateUIState_oneStep(state) == stepV1(stepNoVersion(state))

migrateUIState(state) == stepV2(stepV1(stepNoVersion(state)))

(***************************************************************************)
(* Inputs                                                                  *)
(***************************************************************************)
\* width payloads, in tenths
WidthPayloads == (0 - MaxWidthTenths)..MaxWidthTenths
ColorPayloads == {invokeBlue, [r |-> 0, g |-> 0, b |-> 0, a |-> 0]}

\* ids of accordions and expanders
IdNames == <<"prompt", "advanced", "compositing", "refiner">>
Ids == {IdNames[i] : i \in 1..NumIds}
OpenPayloads == [id : Ids, isOpen : BOOLEAN]

\* persisted snapshots of the ui slice: every property may be missing, and a
\* property the current shape does not know ("legacy") may be there
VersionTags == 0..MaxVersion
SnapshotMaps == {EmptyObject, ("prompt" :> TRUE)}
UISnapshots ==
  { Prop("_version", v) @@ Prop("activeTab", t) @@ Prop("shouldShowImageDetails", d) @@
    Prop("shouldShowProgressInViewer", p) @@ Prop("accordions", a) @@
    Prop("expanders", e) @@ Prop("legacy", x) :
      v \in Opt(VersionTags), t \in Opt(TabNames), d \in Opt(BOOLEAN), p \in Opt(BOOLEAN),
      a \in Opt(SnapshotMaps), e \in Opt(SnapshotMaps), x \in Opt({"kept"}) }

\* persisted snapshots of the canvasSettings slice
CanvasSnapshots ==
  { Prop("_version", v) @@ Prop("autoSave", s) @@ Prop("brushWidth", w) @@
    Prop("color", c) @@ Prop("legacy", x) :
      v \in Opt(VersionTags), s \in Opt(BOOLEAN), w \in Opt({50, 10}),
      c \in Opt(ColorPayloads), x \in Opt({"kept"}) }

(***************************************************************************)
(* Initial states                                                          *)
(***************************************************************************)
NoAction == [type |-> "@@INIT", payload |-> EmptyObject]

InitStore ==
  /\ canvasSettings = initialState
  /\ ui = initialUIState
  /\ uiAction = NoAction

InitNoSnapshot ==
  /\ slice = "ui"
  /\ persisted = EmptyObject
  /\ migrated = EmptyObject
  /\ before = EmptyObject
  /\ nCalls = 0

InitSnapshot ==
  /\ slice \in {"canvasSettings", "ui"}
  /\ persisted \in (IF slice = "ui" THEN UISnapshots ELSE CanvasSnapshots)
  /\ migrated = persisted
  /\ before = persisted
  /\ nCalls = 0

(***************************************************************************)
(* Actions of the canvasSettings slice                                     *)
(***************************************************************************)
CanvasStep(next) ==
  /\ canvasSettings' = next
  /\ UNCHANGED <<ui, uiAction, persistVars>>

ClipToBboxChanged == \E b \in BOOLEAN : CanvasStep(settingsClipToBboxChanged(canvasSettings, b))
DynamicGridToggled == CanvasStep(settingsDynamicGridToggled(canvasSettings))
AutoSaveToggled == CanvasStep(settingsAutoSaveToggled(canvasSettings))
ShowHUDToggled == CanvasStep(settingsShowHUDToggled(canvasSettings))
BrushWidthChanged ==
  \E w \in WidthPayloads : CanvasStep(settingsBrushWidthChanged(canvasSettings, w))
EraserWidthChanged ==
  \E w \in WidthPayloads : CanvasStep(settingsEraserWidthChanged(canvasSettings, w))
ColorChanged == \E c \in ColorPayloads : CanvasStep(settingsColorChanged(canvasSettings, c))
InvertScrollForToolWidthChanged ==
  \E b \in BOOLEAN : CanvasStep(settingsInvertScrollForToolWidthChanged(canvasSettings, b))
SendToCanvasChanged ==
  \E b \in BOOLEAN : CanvasStep(settingsSendToCanvasChanged(canvasSettings, b))
OutputOnlyMaskedRegionsToggled ==
  CanvasStep(settingsOutputOnlyMaskedRegionsToggled(canvasSettings))
AutoProcessFilterToggled == CanvasStep(settingsAutoProcessFilterToggled(canvasSettings))
SnapToGridToggled == CanvasStep(settingsSnapToGridToggled(canvasSettings))
ShowProgressOnCanvasToggled == CanvasStep(settingsShowProgressOnCanvasToggled(canvasSettings))
BboxOverlayToggled == CanvasStep(settingsBboxOverlayToggled(canvasSettings))
PreserveMaskToggled == CanvasStep(settingsPreserveMaskToggled(canvasSettings))

(***************************************************************************)
(* Actions of the ui slice                                                 *)
(***************************************************************************)
UIStep(type, payload, next) ==
  /\ uiAction' = [type |-> type, payload |-> payload]
  /\ ui' = next
  /\ UNCHANGED <<canvasSettings, persistVars>>

SetActiveTab == \E t \in TabNames : UIStep("setActiveTab", t, setActiveTab(ui, t))
SetShouldShowImageDetails ==
  \E b \in BOOLEAN : UIStep("setShouldShowImageDetails", b, setShouldShowImageDetails(ui, b))
SetShouldShowProgressInViewer ==
  \E b \in BOOLEAN :
    UIStep("setShouldShowProgressInViewer", b, setShouldShowProgressInViewer(ui, b))
AccordionStateChanged ==
  \E p \in OpenPayloads : UIStep("accordionStateChanged", p, accordionStateChanged(ui, p))
ExpanderStateChanged ==
  \E p \in OpenPayloads : UIStep("expanderStateChanged", p, expanderStateChanged(ui, p))
WorkflowLoadRequested ==
  UIStep("workflowLoadRequested", EmptyObject, workflowLoadRequested(ui))

(***************************************************************************)
(* The persistence host calls the persist config's migrate on the snapshot *)
(***************************************************************************)
MigrateStep(next) ==
  /\ nCalls < MaxCalls
  /\ before' = migrated
  /\ migrated' = next
  /\ nCalls' = nCalls + 1
  /\ UNCHANGED <<slice, persisted, storeVars>>

MigrateCanvasSettings == slice = "canvasSettings" /\ MigrateStep(migrate(migrated))
MigrateUI == slice = "ui" /\ MigrateStep(migrateUIState(migrated))

(***************************************************************************)
(* Specifications                                                          *)
(***************************************************************************)
NextCanvas ==
  \/ ClipToBboxChanged
  \/ DynamicGridToggled
  \/ AutoSaveToggled
  \/ ShowHUDToggled
  \/ BrushWidthChanged
  \/ EraserWidthChanged
  \/ ColorChanged
  \/ InvertScrollForToolWidthChanged
  \/ SendToCanvasChanged
  \/ OutputOnlyMaskedRegionsToggled
  \/ AutoProcessFilterToggled
  \/ SnapToGridToggled
  \/ ShowProgressOnCanvasToggled
  \/ BboxOverlayToggled
  \/ PreserveMaskToggled

NextUI ==
  \/ SetActiveTab
  \/ SetShouldShowImageDetails
  \/ SetShouldShowProgressInViewer
  \/ AccordionStateChanged
  \/ ExpanderStateChanged
  \/ WorkflowLoadRequested

NextMigrate ==
  \/ MigrateCanvasSettings
  \/ MigrateUI

\* the slices as created, no snapshot loaded
Init == InitStore /\ InitNoSnapshot
\* the slices as created, a snapshot read from storage
InitMigrate == InitStore /\ InitSnapshot

\* the canvasSettings slice under dispatch
SpecCanvas == Init /\ [][NextCanvas]_vars
\* the ui slice under dispatch
SpecUI == Init /\ [][NextUI]_vars
\* a persisted snapshot of either slice under its migrate function
SpecMigrate == InitMigrate /\ [][NextMigrate]_vars

(***************************************************************************)
(* Properties                                                              *)
(***************************************************************************)
\* the latest call was migrateUIState, with `before` as input and `migrated` as output
UICalled == slice = "ui" /\ nCalls >= 1
NoTag(state) == ~Has(state, "_version")
TagIn(state, S) == Has(state, "_version") /\ state["_version"] \in S
OtherFields(state) == DOMAIN state \ {"_version", "activeTab"}
CurrentVersion == initialUIState["_version"]

\* C1: a snapshot whose _version is absent or 1, 2 or 3 comes out of
\* migrateUIState with _version equal to the current version, 3.
C1_ReachesCurrentVersion ==
  (UICalled /\ (NoTag(before) \/ TagIn(before, 1..CurrentVersion)))
    => (Has(migrated, "_version") /\ migrated["_version"] = CurrentVersion
        /\ CurrentVersion = 3)
C1_Witness ==
  /\ UICalled
  /\ TagIn(persisted, {1})
  /\ Has(persisted, "activeTab") /\ persisted["activeTab"] = "upscaling"
  /\ nCalls = 1
  /\ migrated["_version"] = 3

\* C2: migrateUIState is idempotent on its own outputs: a second (or later)
\* call returns its input unchanged in every field.
C2_Idempotent == (slice = "ui" /\ nCalls >= 2) => migrated = before
C2_Witness ==
  /\ slice = "ui" /\ nCalls = 2
  /\ NoTag(persisted)
  /\ Has(persisted, "legacy")
  /\ before # persisted

\* C3: a snapshot with no _version migrates to the same result as the same
\* snapshot with _version set to 1.
C3_MissingTagIsVersion1 ==
  (UICalled /\ NoTag(before)) => migrated = migrateUIState(Put(before, "_version", 1))
C3_Witness ==
  /\ UICalled /\ nCalls = 1
  /\ NoTag(before)
  /\ Has(before, "activeTab") /\ before["activeTab"] = "workflows"
  /\ Has(before, "shouldShowProgressInViewer")

\* C4: the steps run in ascending order, each at most once, so the last write
\* wins: an input tagged absent, 1 or 2 comes out with activeTab = 'canvas',
\* never 'generation', whatever activeTab it carried; {} and
\* {_version: 2, activeTab: 'generation'} both give {_version: 3, activeTab: 'canvas'}.
C4_LastWriteWins ==
  UICalled =>
    /\ (NoTag(before) \/ TagIn(before, {1, 2}))
         => (Has(migrated, "activeTab") /\ migrated["activeTab"] = "canvas"
             /\ migrated["activeTab"] # "generation")
    /\ (before = EmptyObject \/ before = ("_version" :> 2) @@ ("activeTab" :> "generation"))
         => migrated = ("_version" :> 3) @@ ("activeTab" :> "canvas")
C4_Witness ==
  /\ UICalled /\ nCalls = 1
  /\ persisted = ("_version" :> 2) @@ ("activeTab" :> "generation")
  /\ migrated["activeTab"] = "canvas"

\* C5 as stated: after migrateUIState, every field the current UI shape
\* requires is present with a valid value, for every accepted input.
RequiredFields == DOMAIN initialUIState
BackfillableFields == RequiredFields \ {"_version", "activeTab"}
ValidMaps == {EmptyObject} \cup UNION {[D -> BOOLEAN] : D \in (SUBSET {"prompt"}) \ {{}}}
ValidField(state, f) ==
  /\ Has(state, f)
  /\ CASE f = "_version" -> state[f] = CurrentVersion
       [] f = "activeTab" -> state[f] \in TabNames
       [] f \in {"shouldShowImageDetails", "shouldShowProgressInViewer"} ->
            state[f] \in BOOLEAN
       [] OTHER -> state[f] \in ValidMaps
C5_AllRequiredFieldsPresent ==
  (UICalled /\ (NoTag(before) \/ TagIn(before, 1..CurrentVersion)))
    => \A f \in RequiredFields : ValidField(migrated, f)

\* C5 amended: migrateUIState backfills nothing but _version and activeTab:
\* _version is present in every output, an input tagged absent, 1 or 2 comes
\* out with _version = 3 and activeTab = 'canvas', and each of
\* shouldShowImageDetails, shouldShowProgressInViewer, accordions and
\* expanders is present in the output exactly when it was in the input, with
\* the input's value; {} comes out as {_version: 3, activeTab: 'canvas'}.
C5_OnlyTagAndTabBackfilled ==
  UICalled =>
    /\ Has(migrated, "_version")
    /\ (NoTag(before) \/ TagIn(before, {1, 2}))
         => (ValidField(migrated, "_version") /\ ValidField(migrated, "activeTab"))
    /\ \A f \in BackfillableFields :
         /\ Has(migrated, f) <=> Has(before, f)
         /\ Has(before, f) => migrated[f] = before[f]
    /\ before = EmptyObject => DOMAIN migrated = {"_version", "activeTab"}
C5_Witness ==
  /\ UICalled /\ nCalls = 1
  /\ persisted = EmptyObject
  /\ DOMAIN migrated = {"_version", "activeTab"}

\* C6: the canvas-settings migrate returns its input with no field added,
\* removed or changed.
C6_CanvasMigrateIdentity ==
  (slice = "canvasSettings" /\ nCalls >= 1) => (migrated = before /\ migrated = persisted)
C6_Witness ==
  /\ slice = "canvasSettings" /\ nCalls = 1
  /\ NoTag(persisted)
  /\ Has(persisted, "legacy") /\ Has(persisted, "brushWidth")
  /\ migrated = persisted

\* C7: every toggle reducer of the canvas-settings slice is self-inverse:
\* from any reachable state, the same toggle dispatched twice gives back a
\* state equal to the original in every field (and once changes it).
C7_TogglesSelfInverse ==
  LET s == canvasSettings IN
  /\ settingsDynamicGridToggled(settingsDynamicGridToggled(s)) = s
  /\ settingsAutoSaveToggled(settingsAutoSaveToggled(s)) = s
  /\ settingsShowHUDToggled(settingsShowHUDToggled(s)) = s
  /\ settingsOutputOnlyMaskedRegionsToggled(settingsOutputOnlyMaskedRegionsToggled(s)) = s
  /\ settingsAutoProcessFilterToggled(settingsAutoProcessFilterToggled(s)) = s
  /\ settingsSnapToGridToggled(settingsSnapToGridToggled(s)) = s
  /\ settingsShowProgressOnCanvasToggled(settingsShowProgressOnCanvasToggled(s)) = s
  /\ settingsBboxOverlayToggled(settingsBboxOverlayToggled(s)) = s
  /\ settingsPreserveMaskToggled(settingsPreserveMaskToggled(s)) = s
  /\ settingsDynamicGridToggled(s) # s
  /\ settingsPreserveMaskToggled(s) # s
C7_Witness ==
  /\ canvasSettings.dynamicGrid # initialState.dynamicGrid
  /\ canvasSettings.autoSave # initialState.autoSave
  /\ canvasSettings.showHUD # initialState.showHUD
  /\ canvasSettings.outputOnlyMaskedRegions # initialState.outputOnlyMaskedRegions
  /\ canvasSettings.autoProcessFilter # initialState.autoProcessFilter
  /\ canvasSettings.snapToGrid # initialState.snapToGrid
  /\ canvasSettings.showProgressOnCanvas # initialState.showProgressOnCanvas
  /\ canvasSettings.bboxOverlay # initialState.bboxOverlay
  /\ canvasSettings.preserveMask # initialState.preserveMask
  /\ canvasSettings.brushWidth # initialState.brushWidth

\* C8: migrateUIState leaves alone what it is not upgrading: (a) every field
\* other than _version and activeTab, unknown ones included, has the input's
\* value in the output, and none is added or removed; (b) a snapshot tagged 3
\* is returned unchanged, activeTab included.
C8_Frame ==
  UICalled =>
    /\ OtherFields(migrated) = OtherFields(before)
    /\ \A f \in OtherFields(before) : migrated[f] = before[f]
    /\ TagIn(before, {3}) => migrated = before
C8_Witness ==
  /\ UICalled /\ nCalls = 1
  /\ TagIn(persisted, {1})
  /\ Has(persisted, "legacy") /\ Has(persisted, "accordions")
  /\ persisted["accordions"] # EmptyObject
  /\ migrated # persisted

\* C9: from initialUIState, under any sequence of ui actions, _version stays 3
\* and every action changes only its own target: setActiveTab and
\* workflowLoadRequested only activeTab (the latter to 'workflows'),
\* accordionStateChanged only accordions[id], expanderStateChanged only
\* expanders[id], the two boolean setters only their own field.
SameBut(old, new, fields) ==
  /\ DOMAIN new = DOMAIN old
  /\ \A f \in DOMAIN old \ fields : new[f] = old[f]
SameButEntry(old, new, id, isOpen) ==
  /\ DOMAIN new = DOMAIN old \cup {id}
  /\ new[id] = isOpen
  /\ \A k \in DOMAIN old \ {id} : new[k] = old[k]
C9_StepFrame ==
  LET a == uiAction' IN
  /\ ui["_version"] = 3 /\ ui'["_version"] = 3
  /\ a.type = "setActiveTab" =>
       SameBut(ui, ui', {"activeTab"}) /\ ui'["activeTab"] = a.payload
  /\ a.type = "workflowLoadRequested" =>
       SameBut(ui, ui', {"activeTab"}) /\ ui'["activeTab"] = "workflows"
  /\ a.type = "setShouldShowImageDetails" =>
       SameBut(ui, ui', {"shouldShowImageDetails"})
       /\ ui'["shouldShowImageDetails"] = a.payload
  /\ a.type = "setShouldShowProgressInViewer" =>
       SameBut(ui, ui', {"shouldShowProgressInViewer"})
       /\ ui'["shouldShowProgressInViewer"] = a.payload
  /\ a.type = "accordionStateChanged" =>
       /\ SameBut(ui, ui', {"accordions"})
       /\ SameButEntry(ui["accordions"], ui'["accordions"], a.payload.id, a.payload.isOpen)
  /\ a.type = "expanderStateChanged" =>
       /\ SameBut(ui, ui', {"expanders"})
       /\ SameButEntry(ui["expanders"], ui'["expanders"], a.payload.id, a.payload.isOpen)
  /\ canvasSettings' = canvasSettings
C9_UIFrame == [][C9_StepFrame]_vars
C9_Witness ==
  /\ uiAction.type = "workflowLoadRequested"
  /\ ui["activeTab"] = "workflows"
  /\ DOMAIN ui["accordions"] = Ids
  /\ DOMAIN ui["expanders"] # {}
  /\ ui["shouldShowImageDetails"] # initialUIState["shouldShowImageDetails"]
  /\ ui["shouldShowProgressInViewer"] # initialUIState["shouldShowProgressInViewer"]

\* C10: a snapshot whose _version is present but neither 1 nor 2 is returned
\* by migrateUIState unchanged; when that tag is not 3 either (0, or a future
\* tag above 3) the output's _version is therefore not 3.
C10_OtherTagsPassThrough ==
  (UICalled /\ Has(before, "_version") /\ ~TagIn(before, {1, 2}))
    => /\ migrated = before
       /\ ~TagIn(before, {3}) => migrated["_version"] # CurrentVersion
C10_Witness ==
  /\ UICalled /\ nCalls = 1
  /\ TagIn(persisted, {MaxVersion}) /\ MaxVersion > CurrentVersion
  /\ Has(persisted, "activeTab") /\ persisted["activeTab"] = "generation"
  /\ migrated = persisted

====
